---- MODULE Spec2Model ----
(***************************************************************************)
(* Drive lifecycle of swift-storage-boot: the LUKS manager (luks.go), the  *)
(* pass of main() (main.go), and the collaborators they call.  The state   *)
(* is the Drive registry (belief) and the physical world it is reconciled  *)
(* against: on-disk content, the kernel's dm-crypt mappings, the mount     *)
(* table, the quarantine symlinks and the swift-id marker files.           *)
(***************************************************************************)
EXTENDS Integers, Sequences, FiniteSets, TLC

(* ------------------------------ bounds -------------------------------- *)

\* number of block devices matched by the drive globs
NDrives == 2

\* longest configured key list
MaxKeys == 2

\* most events waiting for a pass
MaxQueue == 2

\* most devices failing I/O at the same time
MaxFaulty == 1

Drives == 1..NDrives

\* the drive on which the LUKS manager's operations are exercised one by one
Managed == {1}

(* --------------------------- configuration ---------------------------- *)

\* passphrases that may appear in the configuration
ConfigSecrets == {"a", "b"}

\* passphrases a container on disk may have been created with
DiskSecrets == ConfigSecrets \cup {"x"}

\* the swift-id pool of the configuration, in its order
SwiftIDPool == <<"swift1", "swift2", "swift3">>

PoolIDs == {SwiftIDPool[i] : i \in 1..Len(SwiftIDPool)}

KeyLists == UNION {[1..n -> ConfigSecrets] : n \in 0..MaxKeys}

(* ------------------------------ values -------------------------------- *)

DeviceTypeNotScanned == "NotScanned"

DeviceTypeUnknown == "Unknown"

DeviceTypeLUKS == "LUKS"

DeviceTypeFilesystem == "Filesystem"

\* the empty string of a path-valued field
NoPath == <<>>

\* the device nodes the drive globs can match
DevNames == <<"loop1", "loop2", "loop3", "loop4">>

\* the identifying token of each device (serial number or device ID)
Tokens == <<"hash1", "hash2", "hash3", "hash4">>

\* Drive.DevicePath, the raw block device
DevicePath(d) == <<"/dev", DevNames[d]>>

\* Drive.TemporaryMount.Name, the per-device token
TemporaryMountName(d) == Tokens[d]

\* a mapping name given by somebody other than this program
ForeignName == "foreign"

\* no mapping (the empty string)
NoName == ""

MapNames == {TemporaryMountName(d) : d \in Drives} \cup {ForeignName}

\* "/dev/mapper/" + mapperName
MapperPath(name) == <<"/dev/mapper", name>>

\* filepath.Base of a path
Base(path) == path[Len(path)]

\* /run/swift-storage/<token>
ScratchPath(d) == <<"/run/swift-storage", TemporaryMountName(d)>>

\* /srv/node/<swift-id>
FinalPath(id) == <<"/srv/node", id>>

VARIABLES
    Keys,        \* Config.Keys, the ordered key list
    drives,      \* the Drive registry: Broken, MappedDevicePath, Type, StartedOutEmpty, SwiftID
    disk,        \* per device: what the raw device holds, and inside a container
    kmap,        \* kernel: the open dm-crypt mapping backed by each device, or NoPath
    mounts,      \* kernel: the mount table, records dev/path/ro
    links,       \* devices with a symlink under /run/swift-storage/broken
    marker,      \* the swift-id file on each device's filesystem, "" when absent
    faulty,      \* devices whose hardware currently fails I/O
    nodeWritable, \* /srv/node can be written to
    fatal,       \* the process has ended in Log(LogFatal, ...)
    cmds,        \* the commands run by the operation that acted last
    logs,        \* the log events of the operation that acted last
    lastOp,      \* the operation that acted last
    pc,          \* position of main() in the pass
    queue,       \* events waiting for a pass
    batch,       \* the events that the running pass handles, in arrival order
    allMounts,   \* main's snapshot of the mount table
    mountPaths,  \* main's list of successful temporary mounts
    mountsByID,  \* main's result of ScanSwiftID
    todo,        \* the loop position of main's current range loop
    failed,      \* main's failure flag
    quiet,       \* nothing outside the program has changed since the last pass completed
    exitCode     \* result of the pass that completed last

world == <<disk, kmap, mounts, links, marker, faulty, nodeWritable>>

registry == <<drives>>

trace == <<cmds, logs, lastOp>>

passVars == <<pc, queue, batch, allMounts, mountPaths, mountsByID, todo, failed, quiet, exitCode>>

vars == <<Keys, drives, disk, kmap, mounts, links, marker, faulty, nodeWritable, fatal, cmds, logs, lastOp, pc, queue, batch, allMounts, mountPaths, mountsByID, todo, failed, quiet, exitCode>>

(* The operations are sequential code: each is a function from the state   *)
(* it finds to the state it leaves, so that one operation can call another.*)
St == [drives |-> drives, disk |-> disk, kmap |-> kmap, mounts |-> mounts, links |-> links, marker |-> marker, faulty |-> faulty, fatal |-> fatal, cmds |-> <<>>, logs |-> <<>>]

Apply(s) ==
    /\ drives' = s.drives
    /\ disk' = s.disk
    /\ kmap' = s.kmap
    /\ mounts' = s.mounts
    /\ links' = s.links
    /\ marker' = s.marker
    /\ faulty' = s.faulty
    /\ fatal' = s.fatal
    /\ cmds' = s.cmds
    /\ logs' = s.logs

(* --------------------------- command runner --------------------------- *)

\* Command.Run: the command is recorded in the order it was issued
Run(s, c) == [s EXCEPT !.cmds = Append(@, c)]

\* Log at Info or Error level (Debug lines are not part of the output)
Log(s, level, what, about) == [s EXCEPT !.logs = Append(@, <<level, what, about>>)]

\* Log(LogFatal, ...): the process ends
LogFatal(s, what, about) == [s EXCEPT !.logs = Append(@, <<"FATAL", what, about>>), !.fatal = TRUE]

(* --------------------------- physical world --------------------------- *)

BlankDisk == [raw |-> "blank", secret |-> "none", inner |-> "blank"]

PlainDisk == [raw |-> "fs", secret |-> "none", inner |-> "blank"]

LuksDisk(secret, inner) == [raw |-> "luks", secret |-> secret, inner |-> inner]

\* the device whose blocks are behind a device path, 0 when the path does not exist
Backing(s, path) ==
    IF path[1] = "/dev" THEN CHOOSE d \in Drives : DevNames[d] = path[2]
    ELSE IF \E b \in Drives : s.kmap[b] = path[2]
         THEN CHOOSE b \in Drives : s.kmap[b] = path[2]
         ELSE 0

\* what file(1) finds behind a device path: "blank", "luks", "fs", or "none"
Content(s, path) ==
    IF Backing(s, path) = 0 THEN "none"
    ELSE IF path[1] = "/dev" THEN s.disk[Backing(s, path)].raw
    ELSE s.disk[Backing(s, path)].inner

\* a device path is in use by a mount
IsMounted(s, path) == \E m \in s.mounts : m.dev = path

\* cryptsetup luksOpen <device> <name> with the key on stdin
LuksOpenAccepts(s, d, name, secret) ==
    /\ d \notin s.faulty
    /\ s.disk[d].raw = "luks"
    /\ s.disk[d].secret = secret
    /\ s.kmap[d] = NoName
    /\ \A b \in Drives : s.kmap[b] # name
    /\ ~IsMounted(s, DevicePath(d))

\* cryptsetup luksFormat <device> with the key on stdin
LuksFormatWorks(s, d) ==
    /\ d \notin s.faulty
    /\ s.kmap[d] = NoName
    /\ ~IsMounted(s, DevicePath(d))

\* cryptsetup close <name>
LuksCloseWorks(s, name) ==
    /\ \E b \in Drives : s.kmap[b] = name
    /\ ~IsMounted(s, MapperPath(name))

(* ---------------------------- the classifier -------------------------- *)

\* Drive.ActiveDevicePath: the mapping if one is believed open, else the raw device
ActiveDevicePath(s, d) ==
    IF s.drives[d].MappedDevicePath # NoPath THEN s.drives[d].MappedDevicePath ELSE DevicePath(d)

TypeOfContent(c) ==
    IF c = "luks" THEN DeviceTypeLUKS
    ELSE IF c = "fs" THEN DeviceTypeFilesystem
    ELSE DeviceTypeUnknown

\* Drive.Classify: cached until Type is reset to NotScanned; reports whether it succeeded
Classify(s, d) ==
    IF s.drives[d].Type # DeviceTypeNotScanned THEN [s |-> s, ok |-> TRUE]
    ELSE LET path == ActiveDevicePath(s, d)
             s1 == Run(s, <<"file", path>>)
         IN IF Content(s, path) = "none" \/ Backing(s, path) \in s.faulty
            THEN [s |-> s1, ok |-> FALSE]
            ELSE [s |-> [s1 EXCEPT !.drives[d].Type = TypeOfContent(Content(s, path))], ok |-> TRUE]

(* ----------------------------- quarantine ----------------------------- *)

\* the kernel's mounts of this drive's raw device or of its believed mapping
MountsOf(s, d) ==
    {m \in s.mounts : m.dev = DevicePath(d) \/ (s.drives[d].MappedDevicePath # NoPath /\ m.dev = s.drives[d].MappedDevicePath)}

\* umount <path>
Unmount(s, m) ==
    Log([Run(s, <<"umount", m.path>>) EXCEPT !.mounts = @ \ {m}], "INFO", "unmounted", m.path)

RECURSIVE UnmountAll(_, _)
UnmountAll(s, ms) ==
    IF ms = {} THEN s
    ELSE LET m == CHOOSE x \in ms : \A y \in ms : (y.path[1] = "/srv/node") => (x.path[1] = "/srv/node")
         IN UnmountAll(Unmount(s, m), ms \ {m})

\* Drive.CloseLUKS that leaves the container open
CloseLUKSSkipped(s, d) == s

\* Drive.CloseLUKS that closes the container but keeps believing in its mapping
CloseLUKSKeepingPath(s, d) ==
    IF s.drives[d].MappedDevicePath = NoPath THEN s
    ELSE LET mapperName == Base(s.drives[d].MappedDevicePath)
             s1 == Run(s, <<"close", mapperName>>)
         IN IF LuksCloseWorks(s, mapperName)
            THEN [Log(s1, "INFO", "LUKS container closed", d) EXCEPT
                     !.kmap = [b \in Drives |-> IF @[b] = mapperName THEN NoName ELSE @[b]]]
            ELSE s1

\* a CloseLUKS that forgets the mapping whether cryptsetup closed it or not
CloseLUKSForgetting(s, d) ==
    IF s.drives[d].MappedDevicePath = NoPath THEN s
    ELSE LET mapperName == Base(s.drives[d].MappedDevicePath)
             s1 == Run(s, <<"close", mapperName>>)
         IN IF LuksCloseWorks(s, mapperName)
            THEN [Log(s1, "INFO", "LUKS container closed", d) EXCEPT
                     !.kmap = [b \in Drives |-> IF @[b] = mapperName THEN NoName ELSE @[b]],
                     !.drives[d].MappedDevicePath = NoPath]
            ELSE [s1 EXCEPT !.drives[d].MappedDevicePath = NoPath]

\* Drive.CloseLUKS
CloseLUKS(s, d) ==
    IF s.drives[d].MappedDevicePath = NoPath THEN s
    ELSE LET mapperName == Base(s.drives[d].MappedDevicePath)
             s1 == Run(s, <<"close", mapperName>>)
         IN IF LuksCloseWorks(s, mapperName)
            THEN [Log(s1, "INFO", "LUKS container closed", d) EXCEPT
                     !.kmap = [b \in Drives |-> IF @[b] = mapperName THEN NoName ELSE @[b]],
                     !.drives[d].MappedDevicePath = NoPath]
            ELSE s1

\* Drive.MarkAsBroken: flag, quarantine symlink, unmount, close the mapping
MarkAsBroken(s, d) ==
    LET s1 == Log([s EXCEPT !.drives[d].Broken = TRUE], "INFO", "flagging as broken", d)
        s2 == Log([Run(s1, <<"ln", d>>) EXCEPT !.links = @ \cup {d}], "INFO", "to reinstate delete the symlink", d)
        s3 == UnmountAll(s2, MountsOf(s2, d))
    IN CloseLUKS(s3, d)

\* reinstatement after the quarantine symlink was removed
Reinstate(s, d) ==
    [s EXCEPT !.drives[d].Broken = FALSE, !.drives[d].Type = DeviceTypeNotScanned]

(* ---------------------------- LUKS manager ---------------------------- *)

\* a key loop that walks the key list from its end
RECURSIVE TryKeysReversed(_, _, _)
TryKeysReversed(s, d, idx) ==
    IF idx > Len(Keys) THEN [s |-> s, success |-> FALSE]
    ELSE LET mapperName == TemporaryMountName(d)
             k == Len(Keys) + 1 - idx
             s1 == Run(s, <<"luksOpen", d, mapperName, k>>)
         IN IF LuksOpenAccepts(s, d, mapperName, Keys[k])
            THEN [s |-> [s1 EXCEPT !.kmap[d] = mapperName], success |-> TRUE]
            ELSE TryKeysReversed(s1, d, idx + 1)

\* the key loop of OpenLUKS from index idx on: the state after it, and whether a key was accepted
RECURSIVE TryKeys(_, _, _)
TryKeys(s, d, idx) ==
    IF idx > Len(Keys) THEN [s |-> s, success |-> FALSE]
    ELSE LET mapperName == TemporaryMountName(d)
             s1 == Run(s, <<"luksOpen", d, mapperName, idx>>)
         IN IF LuksOpenAccepts(s, d, mapperName, Keys[idx])
            THEN [s |-> [s1 EXCEPT !.kmap[d] = mapperName], success |-> TRUE]
            ELSE TryKeys(s1, d, idx + 1)

\* an OpenLUKS without its first check (do not touch broken stuff)
OpenLUKSOfBroken(s, d) ==
    IF s.drives[d].MappedDevicePath # NoPath THEN s
    ELSE LET c == Classify(s, d)
         IN IF ~c.ok THEN c.s
            ELSE IF c.s.drives[d].Type # DeviceTypeLUKS THEN c.s
            ELSE LET t == TryKeys(c.s, d, 1)
                 IN IF ~t.success
                    THEN MarkAsBroken(Log(t.s, "ERROR", "none of the configured keys was accepted", d), d)
                    ELSE Log([t.s EXCEPT !.drives[d].MappedDevicePath = MapperPath(TemporaryMountName(d)),
                                         !.drives[d].Type = DeviceTypeNotScanned],
                             "INFO", "LUKS container opened", d)

\* Drive.OpenLUKS without the test of MappedDevicePath
OpenLUKSAgain(s, d) ==
    IF s.drives[d].Broken THEN s
    ELSE LET c == Classify(s, d)
         IN IF ~c.ok THEN c.s
            ELSE IF c.s.drives[d].Type # DeviceTypeLUKS THEN c.s
            ELSE LET t == TryKeys(c.s, d, 1)
                 IN IF ~t.success
                    THEN MarkAsBroken(Log(t.s, "ERROR", "none of the configured keys was accepted", d), d)
                    ELSE Log([t.s EXCEPT !.drives[d].MappedDevicePath = MapperPath(TemporaryMountName(d)),
                                         !.drives[d].Type = DeviceTypeNotScanned],
                             "INFO", "LUKS container opened", d)

\* an OpenLUKS that reports the refused keys and leaves the drive in service
OpenLUKSGivingUp(s, d) ==
    IF s.drives[d].Broken THEN s
    ELSE IF s.drives[d].MappedDevicePath # NoPath THEN s
    ELSE LET c == Classify(s, d)
         IN IF ~c.ok THEN c.s
            ELSE IF c.s.drives[d].Type # DeviceTypeLUKS THEN c.s
            ELSE LET t == TryKeys(c.s, d, 1)
                 IN IF ~t.success
                    THEN Log(t.s, "ERROR", "none of the configured keys was accepted", d)
                    ELSE Log([t.s EXCEPT !.drives[d].MappedDevicePath = MapperPath(TemporaryMountName(d)),
                                         !.drives[d].Type = DeviceTypeNotScanned],
                             "INFO", "LUKS container opened", d)

\* Drive.OpenLUKS
OpenLUKS(s, d) ==
    IF s.drives[d].Broken THEN s
    ELSE IF s.drives[d].MappedDevicePath # NoPath THEN s
    ELSE LET c == Classify(s, d)
         IN IF ~c.ok THEN c.s
            ELSE IF c.s.drives[d].Type # DeviceTypeLUKS THEN c.s
            ELSE LET t == TryKeys(c.s, d, 1)
                 IN IF ~t.success
                    THEN MarkAsBroken(Log(t.s, "ERROR", "none of the configured keys was accepted", d), d)
                    ELSE Log([t.s EXCEPT !.drives[d].MappedDevicePath = MapperPath(TemporaryMountName(d)),
                                         !.drives[d].Type = DeviceTypeNotScanned],
                             "INFO", "LUKS container opened", d)

\* ScanLUKSMappings: backing device path -> mapping name, NoName when there is none
ScanLUKSMappings(s) == [d \in Drives |-> s.kmap[d]]

\* a CheckLUKS that follows the kernel when the mapping is open under another name
CheckLUKSTrustingKernel(s, d, activeMappings) ==
    LET actualMapName == activeMappings[d]
        actualMappedPath == MapperPath(actualMapName)
    IN IF actualMapName = NoName
       THEN IF s.drives[d].MappedDevicePath # NoPath
            THEN MarkAsBroken(Log(s, "ERROR", "should be open but is not", d), d)
            ELSE s
       ELSE IF s.drives[d].MappedDevicePath = actualMappedPath THEN s
            ELSE [Log([s EXCEPT !.drives[d].MappedDevicePath = actualMappedPath], "INFO", "discovered to be mapped already", d)
                     EXCEPT !.drives[d].StartedOutEmpty = FALSE]

\* Drive.CheckLUKS
CheckLUKS(s, d, activeMappings) ==
    LET actualMapName == activeMappings[d]
        actualMappedPath == MapperPath(actualMapName)
    IN IF actualMapName = NoName
       THEN IF s.drives[d].MappedDevicePath # NoPath
            THEN MarkAsBroken(Log(s, "ERROR", "should be open but is not", d), d)
            ELSE s
       ELSE IF s.drives[d].MappedDevicePath = NoPath
            THEN [Log([s EXCEPT !.drives[d].MappedDevicePath = actualMappedPath], "INFO", "discovered to be mapped already", d)
                     EXCEPT !.drives[d].StartedOutEmpty = FALSE]
            ELSE IF s.drives[d].MappedDevicePath = actualMappedPath THEN s
            ELSE MarkAsBroken(Log(s, "ERROR", "is actually open at", d), d)

\* a FormatLUKSIfRequired that looks at the device before it looks at the key list
FormatLUKSClassifyingFirst(s, d) ==
    IF s.drives[d].Broken THEN s
    ELSE IF s.drives[d].MappedDevicePath # NoPath THEN s
    ELSE LET c == Classify(s, d)
         IN IF ~c.ok THEN c.s
            ELSE IF c.s.drives[d].Type # DeviceTypeUnknown THEN c.s
            ELSE IF Len(Keys) = 0 THEN LogFatal(c.s, "no keys specified", d)
            ELSE LET s1 == Run(c.s, <<"luksFormat", d, 1>>)
                 IN IF LuksFormatWorks(c.s, d)
                    THEN [s1 EXCEPT !.disk[d] = LuksDisk(Keys[1], "blank"),
                                    !.marker[d] = "",
                                    !.drives[d].Type = DeviceTypeLUKS]
                    ELSE MarkAsBroken(s1, d)

\* a FormatLUKSIfRequired that does not update the classification after luksFormat
FormatLUKSKeepingType(s, d) ==
    IF s.drives[d].Broken THEN s
    ELSE IF s.drives[d].MappedDevicePath # NoPath THEN s
    ELSE IF Len(Keys) = 0 THEN LogFatal(s, "no keys specified", d)
    ELSE LET c == Classify(s, d)
         IN IF ~c.ok THEN c.s
            ELSE IF c.s.drives[d].Type # DeviceTypeUnknown THEN c.s
            ELSE LET s1 == Run(c.s, <<"luksFormat", d, 1>>)
                 IN IF LuksFormatWorks(c.s, d)
                    THEN [s1 EXCEPT !.disk[d] = LuksDisk(Keys[1], "blank"),
                                    !.marker[d] = ""]
                    ELSE MarkAsBroken(s1, d)

\* Drive.FormatLUKSIfRequired
FormatLUKSIfRequired(s, d) ==
    IF s.drives[d].Broken THEN s
    ELSE IF s.drives[d].MappedDevicePath # NoPath THEN s
    ELSE IF Len(Keys) = 0 THEN LogFatal(s, "no keys specified", d)
    ELSE LET c == Classify(s, d)
         IN IF ~c.ok THEN c.s
            ELSE IF c.s.drives[d].Type # DeviceTypeUnknown THEN c.s
            ELSE LET s1 == Run(c.s, <<"luksFormat", d, 1>>)
                 IN IF LuksFormatWorks(c.s, d)
                    THEN [s1 EXCEPT !.disk[d] = LuksDisk(Keys[1], "blank"),
                                    !.marker[d] = "",
                                    !.drives[d].Type = DeviceTypeLUKS]
                    ELSE MarkAsBroken(s1, d)

(* --------------------------- mount controllers ------------------------ *)

\* mount <device> <path>: needs a filesystem (a blank decrypted device gets one first)
MountWorks(s, path) ==
    /\ Backing(s, path) # 0
    /\ Backing(s, path) \notin s.faulty
    /\ Content(s, path) = "fs" \/ (path[1] = "/dev/mapper" /\ Content(s, path) = "blank")

\* the mount table after a successful mount <device> <path>
Mount(s, dev, path) ==
    LET b == Backing(s, dev)
        s1 == Run(s, <<"mount", dev, path>>)
        s2 == IF dev[1] = "/dev/mapper" THEN [s1 EXCEPT !.disk[b].inner = "fs"] ELSE s1
    IN Log([s2 EXCEPT !.mounts = @ \cup {[dev |-> dev, path |-> path, ro |-> FALSE]}], "INFO", "mounted", path)

\* step 3 of a pass: reconcile with the kernel's mappings, then format or open
PrepareLUKS(s, d) ==
    LET s1 == CheckLUKS(s, d, ScanLUKSMappings(s))
        s2 == FormatLUKSIfRequired(s1, d)
    IN IF s2.fatal THEN s2 ELSE OpenLUKS(s2, d)

\* MountDevice once the container is prepared: the read-only test and the mount at the scratch path
MountPrepared(s1, d, currentMounts) ==
    LET dev == ActiveDevicePath(s1, d)
        found == {m \in currentMounts : m.dev = dev}
    IN IF s1.fatal THEN [s |-> s1, err |-> TRUE]
       ELSE IF s1.drives[d].Broken THEN [s |-> s1, err |-> TRUE]
       ELSE IF \E m \in found : m.ro
       THEN [s |-> MarkAsBroken(s1, d), err |-> TRUE]
       ELSE IF found # {} THEN [s |-> s1, err |-> FALSE]
       ELSE IF MountWorks(s1, dev)
       THEN [s |-> Mount(s1, dev, ScratchPath(d)), err |-> FALSE]
       ELSE [s |-> MarkAsBroken(Run(s1, <<"mount", dev, ScratchPath(d)>>), d), err |-> TRUE]

\* MountDevice: the state after it and whether it returned an error
MountDevice(s, d, currentMounts) ==
    IF s.drives[d].Broken THEN [s |-> s, err |-> FALSE]
    ELSE MountPrepared(PrepareLUKS(s, d), d, currentMounts)

\* ExecuteFinalMount that leaves the scratch path before it mounts below /srv/node
ExecuteFinalMountTearingDownFirst(s, d, swiftID, currentMounts) ==
    LET dev == ActiveDevicePath(s, d)
        scratch == {m \in s.mounts : m.dev = dev /\ m.path = ScratchPath(d)}
    IN IF s.drives[d].Broken THEN [s |-> s, err |-> FALSE]
       ELSE IF \E m \in currentMounts : m.dev = dev /\ m.path = FinalPath(swiftID)
       THEN [s |-> s, err |-> FALSE]
       ELSE IF MountWorks(s, dev) /\ ~(\E m \in s.mounts : m.path = FinalPath(swiftID))
       THEN [s |-> Mount(UnmountAll(s, scratch), dev, FinalPath(swiftID)), err |-> FALSE]
       ELSE [s |-> MarkAsBroken(Run(s, <<"mount", dev, FinalPath(swiftID)>>), d), err |-> TRUE]

\* ExecuteFinalMount: the state after it and whether it returned an error
ExecuteFinalMount(s, d, swiftID, currentMounts) ==
    LET dev == ActiveDevicePath(s, d)
        scratch == {m \in s.mounts : m.dev = dev /\ m.path = ScratchPath(d)}
    IN IF s.drives[d].Broken THEN [s |-> s, err |-> FALSE]
       ELSE IF \E m \in currentMounts : m.dev = dev /\ m.path = FinalPath(swiftID)
       THEN [s |-> s, err |-> FALSE]
       ELSE IF MountWorks(s, dev) /\ ~(\E m \in s.mounts : m.path = FinalPath(swiftID))
       THEN [s |-> UnmountAll(Mount(s, dev, FinalPath(swiftID)), scratch), err |-> FALSE]
       ELSE [s |-> MarkAsBroken(Run(s, <<"mount", dev, FinalPath(swiftID)>>), d), err |-> TRUE]

(* ------------------------- the registry at start ---------------------- *)

NewDrive == [Broken |-> FALSE, MappedDevicePath |-> NoPath, Type |-> DeviceTypeNotScanned, StartedOutEmpty |-> TRUE, SwiftID |-> ""]

\* what a device may hold when it is first seen
DiskContents ==
    {BlankDisk, PlainDisk} \cup {LuksDisk(k, i) : k \in DiskSecrets, i \in {"blank", "fs"}}

Idle ==
    /\ pc = "idle"
    /\ queue = <<>>
    /\ batch = <<>>
    /\ allMounts = {}
    /\ mountPaths = <<>>
    /\ mountsByID = {}
    /\ todo = <<>>
    /\ failed = FALSE
    /\ quiet = FALSE
    /\ exitCode = 0

Init ==
    /\ Keys \in KeyLists
    /\ drives = [d \in Drives |-> NewDrive]
    /\ disk \in {f \in [Drives -> DiskContents] : \A d \in Drives \ Managed : f[d] = BlankDisk}
    /\ kmap = [d \in Drives |-> NoName]
    /\ mounts = {}
    /\ links = {}
    /\ marker = [d \in Drives |-> ""]
    /\ faulty = {}
    /\ nodeWritable = TRUE
    /\ fatal = FALSE
    /\ cmds = <<>>
    /\ logs = <<>>
    /\ lastOp = [op |-> "start", d |-> 0]
    /\ Idle

(* ------------- the LUKS manager's operations, in any order ------------ *)

\* one operation on one drive
Step(op, d, s) ==
    /\ ~fatal
    /\ Apply(s)
    /\ lastOp' = [op |-> op, d |-> d]
    /\ UNCHANGED <<Keys, nodeWritable, passVars>>

DoOpenLUKS(d) == Step("OpenLUKS", d, OpenLUKS(St, d))

DoCloseLUKS(d) == Step("CloseLUKS", d, CloseLUKS(St, d))

DoCheckLUKS(d) == Step("CheckLUKS", d, CheckLUKS(St, d, ScanLUKSMappings(St)))

DoFormatLUKSIfRequired(d) == Step("FormatLUKSIfRequired", d, FormatLUKSIfRequired(St, d))

DoClassify(d) == Step("Classify", d, Classify(St, d).s)

DoMountDevice(d) == Step("MountDevice", d, MountDevice(St, d, mounts).s)

\* the operator deletes the quarantine symlink, and the drive is reinstated
DoReinstate(d) ==
    /\ d \in links
    /\ Step("Reinstate", d, Reinstate([St EXCEPT !.links = @ \ {d}], d))

(* ------------------------- the physical world ------------------------- *)

\* something outside this program changes the world; the changes are observed between two passes
Env(what, d, s) ==
    /\ ~fatal
    /\ pc = "idle"
    /\ Apply(s)
    /\ lastOp' = [op |-> what, d |-> d]
    /\ quiet' = FALSE
    /\ UNCHANGED <<Keys, nodeWritable, pc, queue, batch, allMounts, mountPaths, mountsByID, todo, failed, exitCode>>

\* the mapping of a device is closed by somebody else
EnvCloseMapping(d) ==
    /\ kmap[d] # NoName
    /\ ~IsMounted(St, MapperPath(kmap[d]))
    /\ Env("env", d, [St EXCEPT !.kmap[d] = NoName])

\* a container is opened by somebody else, under a name of their choice
EnvOpenMapping(d) ==
    /\ disk[d].raw = "luks"
    /\ kmap[d] = NoName
    /\ \A b \in Drives : kmap[b] # ForeignName
    /\ Env("env", d, [St EXCEPT !.kmap[d] = ForeignName])

\* the kernel remounts a device's filesystem read-only (mount -o remount,ro)
EnvRemountRO(d) ==
    /\ \E m \in mounts : Backing(St, m.dev) = d /\ ~m.ro
    /\ Env("env", d, [St EXCEPT !.mounts = {IF Backing(St, m.dev) = d THEN [m EXCEPT !.ro = TRUE] ELSE m : m \in @}])

\* a device starts to fail I/O
EnvFault(d) ==
    /\ d \notin faulty
    /\ Cardinality(faulty) < MaxFaulty
    /\ Env("env", d, [St EXCEPT !.faulty = @ \cup {d}])

\* a failing device is repaired
EnvRepair(d) ==
    /\ d \in faulty
    /\ Env("env", d, [St EXCEPT !.faulty = @ \ {d}])

Next ==
    \E d \in Managed :
        \/ DoOpenLUKS(d)
        \/ DoCloseLUKS(d)
        \/ DoCheckLUKS(d)
        \/ DoFormatLUKSIfRequired(d)
        \/ DoClassify(d)
        \/ DoMountDevice(d)
        \/ DoReinstate(d)
        \/ EnvCloseMapping(d)
        \/ EnvOpenMapping(d)
        \/ EnvRemountRO(d)
        \/ EnvFault(d)
        \/ EnvRepair(d)

Spec == Init /\ [][Next]_vars

(* --------------------------- identity assigner ------------------------ *)

\* the drives ScanSwiftID looks at: those with a mount under /run/swift-storage
Scanned(s, currentMounts) ==
    {d \in Drives : ~s.drives[d].Broken /\ \E m \in currentMounts : m.path = ScratchPath(d)}

\* the content of the swift-id file below the drive's temporary mount point, "" when there is none
ReadSwiftID(s, d) ==
    IF \E m \in s.mounts : m.path = ScratchPath(d) THEN s.marker[d] ELSE ""

\* the first identity of the pool, from position i on, that nobody claims; "" when none is left
RECURSIVE FirstUnused(_, _)
FirstUnused(claimed, i) ==
    IF i > Len(SwiftIDPool) THEN ""
    ELSE IF SwiftIDPool[i] \notin claimed THEN SwiftIDPool[i]
    ELSE FirstUnused(claimed, i + 1)

\* a Claimed that forgets what the other drives of this pass carry
ClaimedByRegistryOnly(s, scanned, d) ==
    {s.drives[e].SwiftID : e \in Drives \ {d}}

\* the identities claimed by the drives other than d
Claimed(s, scanned, d) ==
    {ReadSwiftID(s, e) : e \in scanned \ {d}} \cup {s.drives[e].SwiftID : e \in Drives \ {d}}

\* log one line for each drive of ds from drive d on, in discovery order
RECURSIVE LogEach(_, _, _, _, _)
LogEach(s, ds, d, level, what) ==
    IF d > NDrives THEN s
    ELSE LogEach(IF d \in ds THEN Log(s, level, what, d) ELSE s, ds, d + 1, level, what)

\* give every scanned drive without a swift-id file one, from drive d on, in discovery order
RECURSIVE AssignSwiftIDs(_, _, _)
AssignSwiftIDs(s, scanned, d) ==
    IF d > NDrives THEN s
    ELSE IF d \notin scanned \/ ReadSwiftID(s, d) # "" THEN AssignSwiftIDs(s, scanned, d + 1)
    ELSE LET id == FirstUnused(Claimed(s, scanned, d), 1)
             mounted == \E m \in s.mounts : m.path = ScratchPath(d)
         IN IF id = "" \/ ~mounted
            THEN AssignSwiftIDs(Log(s, "ERROR", "cannot assign a swift-id", d), scanned, d + 1)
            ELSE AssignSwiftIDs(Log([s EXCEPT !.marker[d] = id], "INFO", "assigning swift-id", d), scanned, d + 1)

\* the swift-id read from drive d is also claimed by another drive
Collides(s, scanned, d) ==
    ReadSwiftID(s, d) # "" /\ ReadSwiftID(s, d) \in Claimed(s, scanned, d)

\* ScanSwiftID: the state after it, the pairs <<swift-id, drive>> to promote, and whether it failed
ScanSwiftID(s, currentMounts) ==
    LET scanned == Scanned(s, currentMounts)
        s1 == LogEach(s, {d \in scanned : ReadSwiftID(s, d) = ""}, 1, "INFO", "no swift-id file found")
        s2 == AssignSwiftIDs(s1, scanned, 1)
        bad == {d \in scanned : Collides(s2, scanned, d)}
        good == {d \in scanned \ bad : ReadSwiftID(s2, d) # ""}
        s3 == LogEach(s2, bad, 1, "ERROR", "found multiple drives with this swift-id")
    IN [s |-> [s3 EXCEPT !.drives = [d \in Drives |-> IF d \in good THEN [@[d] EXCEPT !.SwiftID = ReadSwiftID(s2, d)] ELSE @[d]]],
        result |-> {<<ReadSwiftID(s2, d), d>> : d \in good},
        failed |-> scanned # good]

(* ------------------------- events and the pass ------------------------ *)

\* the events of the devices found at start, from drive d on, in the order the test shows them
RECURSIVE NewDevices(_)
NewDevices(d) == IF d > NDrives THEN <<>> ELSE <<<<"new device found", d>>>> \o NewDevices(d + 1)

\* the drives in the order ListDrives returns them
RECURSIVE DrivePaths(_)
DrivePaths(d) == IF d > NDrives THEN <<>> ELSE <<d>> \o DrivePaths(d + 1)

\* the keys of the test's configuration: one secret
TestKeys == <<"a">>

\* what a device may hold, with its swift-id file, when the program starts
StartContents ==
    {<<BlankDisk, "">>, <<LuksDisk("a", "fs"), "swift1">>, <<LuksDisk("a", "fs"), "swift2">>,
     <<LuksDisk("x", "fs"), "">>}

PassInit ==
    /\ Keys = TestKeys
    /\ drives = [d \in Drives |-> NewDrive]
    /\ \E c \in [Drives -> StartContents] :
          /\ disk = [d \in Drives |-> c[d][1]]
          /\ marker = [d \in Drives |-> c[d][2]]
    /\ kmap = [d \in Drives |-> NoName]
    /\ mounts = {}
    /\ links = {}
    /\ faulty = {}
    /\ nodeWritable = TRUE
    /\ fatal = FALSE
    /\ cmds = <<>>
    /\ logs = <<>>
    /\ lastOp = [op |-> "start", d |-> 0]
    /\ pc = "idle"
    /\ queue = NewDevices(1)
    /\ batch = <<>>
    /\ allMounts = {}
    /\ mountPaths = <<>>
    /\ mountsByID = {}
    /\ todo = <<>>
    /\ failed = FALSE
    /\ quiet = FALSE
    /\ exitCode = 0

\* the timer asks for a consistency check
Tick ==
    /\ ~fatal
    /\ Len(queue) < MaxQueue
    /\ queue' = Append(queue, <<"scheduled consistency check", 0>>)
    /\ UNCHANGED <<Keys, drives, world, fatal, trace, pc, batch, allMounts, mountPaths, mountsByID, todo, failed, quiet, exitCode>>

\* the operator deletes the quarantine symlink of a drive
EnvRemoveLink(d) ==
    /\ ~fatal
    /\ pc = "idle"
    /\ d \in links
    /\ Len(queue) < MaxQueue
    /\ links' = links \ {d}
    /\ queue' = Append(queue, <<"device reinstated", d>>)
    /\ quiet' = FALSE
    /\ UNCHANGED <<Keys, drives, disk, kmap, mounts, marker, faulty, nodeWritable, fatal, trace, pc, batch, allMounts, mountPaths, mountsByID, todo, failed, exitCode>>

\* /srv/node stops or starts being writable
EnvNodeWritable(w) ==
    /\ ~fatal
    /\ pc = "idle"
    /\ nodeWritable # w
    /\ nodeWritable' = w
    /\ quiet' = FALSE
    /\ UNCHANGED <<Keys, drives, disk, kmap, mounts, links, marker, faulty, fatal, trace, pc, queue, batch, allMounts, mountPaths, mountsByID, todo, failed, exitCode>>

\* the events evs are received one after the other, from the i-th on: each is logged, and a
\* drive whose quarantine symlink was deleted is reinstated
RECURSIVE Receive(_, _, _)
Receive(s, evs, i) ==
    IF i > Len(evs) THEN s
    ELSE LET s0 == Log(s, "INFO", "event received", evs[i][2])
         IN Receive(IF evs[i][1] = "device reinstated" THEN Reinstate(s0, evs[i][2]) ELSE s0, evs, i + 1)

\* a Begin that does not wait for the running pass to end
BeginOverlapping ==
    /\ ~fatal
    /\ queue # <<>>
    /\ Apply(Receive(St, queue, 1))
    /\ batch' = queue
    /\ queue' = <<>>
    /\ allMounts' = mounts
    /\ mountPaths' = <<>>
    /\ mountsByID' = {}
    /\ todo' = DrivePaths(1)
    /\ failed' = FALSE
    /\ pc' = "mount"
    /\ lastOp' = [op |-> "Begin", d |-> 0]
    /\ UNCHANGED <<Keys, nodeWritable, quiet, exitCode>>

\* the events that wait are taken from the queue, in arrival order, and one pass begins for
\* all of them: main up to the first ScanMountPoints
Begin ==
    /\ ~fatal
    /\ pc = "idle"
    /\ queue # <<>>
    /\ Apply(Receive(St, queue, 1))
    /\ batch' = queue
    /\ queue' = <<>>
    /\ allMounts' = mounts
    /\ mountPaths' = <<>>
    /\ mountsByID' = {}
    /\ todo' = DrivePaths(1)
    /\ failed' = FALSE
    /\ pc' = "mount"
    /\ lastOp' = [op |-> "Begin", d |-> 0]
    /\ UNCHANGED <<Keys, nodeWritable, quiet, exitCode>>

\* the loop over drivePaths, giving up at the first drive that fails
MountStageAborting ==
    /\ ~fatal
    /\ pc = "mount"
    /\ todo # <<>>
    /\ LET d == Head(todo)
           r == MountDevice(St, d, allMounts)
       IN /\ Apply(IF r.err /\ ~r.s.fatal THEN Log(r.s, "ERROR", "MountDevice", d) ELSE r.s)
          /\ mountPaths' = IF r.err THEN mountPaths ELSE Append(mountPaths, ScratchPath(d))
          /\ failed' = (failed \/ r.err)
          /\ lastOp' = [op |-> "MountDevice", d |-> d]
          /\ todo' = IF r.err THEN <<>> ELSE Tail(todo)
          /\ pc' = IF r.err \/ Tail(todo) = <<>> THEN "scan" ELSE "mount"
    /\ UNCHANGED <<Keys, nodeWritable, queue, batch, allMounts, mountsByID, quiet, exitCode>>

\* one turn of main's loop over drivePaths
MountStage ==
    /\ ~fatal
    /\ pc = "mount"
    /\ todo # <<>>
    /\ LET d == Head(todo)
           r == MountDevice(St, d, allMounts)
       IN /\ Apply(IF r.err /\ ~r.s.fatal THEN Log(r.s, "ERROR", "MountDevice", d) ELSE r.s)
          /\ mountPaths' = IF r.err THEN mountPaths ELSE Append(mountPaths, ScratchPath(d))
          /\ failed' = (failed \/ r.err)
          /\ lastOp' = [op |-> "MountDevice", d |-> d]
    /\ todo' = Tail(todo)
    /\ pc' = IF Tail(todo) = <<>> THEN "scan" ELSE "mount"
    /\ UNCHANGED <<Keys, nodeWritable, queue, batch, allMounts, mountsByID, quiet, exitCode>>

\* main rescans the mount points if something was mounted, and maps the drives to swift-ids
ScanStage ==
    /\ ~fatal
    /\ pc = "scan"
    /\ LET snapshot == IF Len(mountPaths) > 0 THEN mounts ELSE allMounts
           r == ScanSwiftID(St, snapshot)
       IN /\ Apply(r.s)
          /\ allMounts' = snapshot
          /\ mountsByID' = r.result
          /\ failed' = (failed \/ r.failed)
          /\ pc' = IF r.result = {} THEN "ready" ELSE "final"
    /\ lastOp' = [op |-> "ScanSwiftID", d |-> 0]
    /\ UNCHANGED <<Keys, nodeWritable, queue, batch, mountPaths, todo, quiet, exitCode>>

\* one turn of main's loop over mountsByID, in the order the map yields
FinalStage ==
    /\ ~fatal
    /\ pc = "final"
    /\ \E pair \in mountsByID :
          LET r == ExecuteFinalMount(St, pair[2], pair[1], allMounts)
          IN /\ Apply(IF r.err THEN Log(r.s, "ERROR", "ExecuteFinalMount", pair[2])
                               ELSE Log(r.s, "INFO", "is mounted on", pair[2]))
             /\ failed' = (failed \/ r.err)
             /\ mountsByID' = mountsByID \ {pair}
             /\ pc' = IF mountsByID = {pair} THEN "ready" ELSE "final"
             /\ lastOp' = [op |-> "ExecuteFinalMount", d |-> pair[2]]
    /\ UNCHANGED <<Keys, nodeWritable, queue, batch, allMounts, mountPaths, todo, quiet, exitCode>>

\* a Finish that does not count the failure to touch the ready marker
FinishIgnoringTouch ==
    /\ ~fatal
    /\ pc = "ready"
    /\ LET s1 == Run(St, <<"touch", "/srv/node/ready">>)
           s2 == IF nodeWritable THEN s1 ELSE Log(s1, "ERROR", "touch /srv/node/ready", 0)
       IN /\ Apply(IF failed THEN Log(s2, "INFO", "completed with errors, see above", 0) ELSE s2)
          /\ exitCode' = IF failed THEN 1 ELSE 0
    /\ failed' = FALSE
    /\ allMounts' = {}
    /\ mountPaths' = <<>>
    /\ quiet' = TRUE
    /\ pc' = "idle"
    /\ lastOp' = [op |-> "Finish", d |-> 0]
    /\ UNCHANGED <<Keys, nodeWritable, queue, batch, mountsByID, todo>>

\* a Finish that leaves the ready marker alone when the pass had a failure
FinishTouchingOnSuccessOnly ==
    /\ ~fatal
    /\ pc = "ready"
    /\ LET s1 == IF failed THEN St ELSE Run(St, <<"touch", "/srv/node/ready">>)
           s2 == IF nodeWritable \/ failed THEN s1 ELSE Log(s1, "ERROR", "touch /srv/node/ready", 0)
           bad == failed \/ ~nodeWritable
       IN /\ Apply(IF bad THEN Log(s2, "INFO", "completed with errors, see above", 0) ELSE s2)
          /\ exitCode' = IF bad THEN 1 ELSE 0
    /\ failed' = FALSE
    /\ allMounts' = {}
    /\ mountPaths' = <<>>
    /\ quiet' = TRUE
    /\ pc' = "idle"
    /\ lastOp' = [op |-> "Finish", d |-> 0]
    /\ UNCHANGED <<Keys, nodeWritable, queue, batch, mountsByID, todo>>

\* main marks /srv/node as ready and reports the failures of the pass
Finish ==
    /\ ~fatal
    /\ pc = "ready"
    /\ LET s1 == Run(St, <<"touch", "/srv/node/ready">>)
           s2 == IF nodeWritable THEN s1 ELSE Log(s1, "ERROR", "touch /srv/node/ready", 0)
           bad == failed \/ ~nodeWritable
       IN /\ Apply(IF bad THEN Log(s2, "INFO", "completed with errors, see above", 0) ELSE s2)
          /\ exitCode' = IF bad THEN 1 ELSE 0
    /\ failed' = FALSE
    /\ allMounts' = {}
    /\ mountPaths' = <<>>
    /\ quiet' = TRUE
    /\ pc' = "idle"
    /\ lastOp' = [op |-> "Finish", d |-> 0]
    /\ UNCHANGED <<Keys, nodeWritable, queue, batch, mountsByID, todo>>

PassNext ==
    \/ Begin
    \/ MountStage
    \/ ScanStage
    \/ FinalStage
    \/ Finish
    \/ Tick
    \/ \E w \in BOOLEAN : EnvNodeWritable(w)
    \/ \E d \in Drives :
          \/ EnvRemoveLink(d)
          \/ EnvRemountRO(d)
          \/ EnvFault(d)
          \/ EnvRepair(d)

PassSpec == PassInit /\ [][PassNext]_vars

(* ------------------------------ properties ---------------------------- *)

\* the commands of one kind among a sequence of commands
Issued(cs, kind) == SelectSeq(cs, LAMBDA c : c[1] = kind)

\* the operation that acted last is op on drive d
Acted(op, d) == lastOp.op = op /\ lastOp.d = d

\* the raw device holds a LUKS header or a recognized filesystem
HoldsData(d) == disk[d].raw \in {"luks", "fs"}

(* C1: data-loss guard.  Whatever operations came before, a step of        *)
(* FormatLUKSIfRequired runs cryptsetup luksFormat only on a drive that is *)
(* not Broken, has no MappedDevicePath and is classified Unknown, and      *)
(* never on a raw device that holds a LUKS header or a filesystem at that  *)
(* moment.                                                                 *)
C1_FormatOnlyBlank ==
    [][\A d \in Drives :
          (lastOp'.op = "FormatLUKSIfRequired" /\ lastOp'.d = d /\ Issued(cmds', "luksFormat") # <<>>)
          => /\ ~drives[d].Broken
             /\ drives[d].MappedDevicePath = NoPath
             /\ Classify(St, d).ok
             /\ Classify(St, d).s.drives[d].Type = DeviceTypeUnknown
             /\ ~HoldsData(d)]_vars

(* C2: key precedence.  OpenLUKS issues its luksOpen attempts with keys in *)
(* strictly increasing list index, each key at most once, and none after   *)
(* the first key the container accepts; FormatLUKSIfRequired, when it      *)
(* formats, uses the first key of the list.                                *)
C2_KeyPrecedence ==
    [][\A d \in Drives :
          /\ (lastOp'.op = "OpenLUKS" /\ lastOp'.d = d)
             => LET o == Issued(cmds', "luksOpen")
                IN /\ \A i \in 1..Len(o) : o[i][2] = d /\ o[i][4] \in 1..Len(Keys)
                   /\ \A i, j \in 1..Len(o) : i < j => o[i][4] < o[j][4]
                   /\ \A i \in 1..Len(o) : LuksOpenAccepts(St, d, o[i][3], Keys[o[i][4]]) => i = Len(o)
          /\ (lastOp'.op = "FormatLUKSIfRequired" /\ lastOp'.d = d)
             => LET f == Issued(cmds', "luksFormat")
                IN /\ \A i \in 1..Len(f) : f[i][3] = 1
                   /\ disk'[d] # disk[d] => disk'[d].secret = Keys[1]]_vars

\* OpenLUKS tried two keys and the second one opened the container
C2_Witness ==
    \E d \in Drives :
        /\ Acted("OpenLUKS", d)
        /\ Len(Issued(cmds, "luksOpen")) = 2
        /\ drives[d].MappedDevicePath = MapperPath(TemporaryMountName(d))
        /\ kmap[d] = TemporaryMountName(d)
        /\ Keys[2] = disk[d].secret

(* C3: quarantine is sticky.  On a drive whose Broken flag is set, a call  *)
(* of OpenLUKS, of FormatLUKSIfRequired or of the temporary mount stage    *)
(* runs no command and leaves MappedDevicePath, Type and Broken as they    *)
(* were; only Reinstate ends this.                                         *)
C3_QuarantineSticky ==
    [][\A d \in Drives :
          (drives[d].Broken /\ lastOp'.d = d /\ lastOp'.op \in {"OpenLUKS", "FormatLUKSIfRequired", "MountDevice"})
          => /\ cmds' = <<>>
             /\ drives'[d].Broken
             /\ drives'[d].MappedDevicePath = drives[d].MappedDevicePath
             /\ drives'[d].Type = drives[d].Type]_vars

\* OpenLUKS was called on a quarantined drive that holds a closed LUKS container, and did nothing
C3_Witness ==
    \E d \in Drives :
        /\ Acted("OpenLUKS", d)
        /\ drives[d].Broken
        /\ drives[d].MappedDevicePath = NoPath
        /\ drives[d].Type = DeviceTypeLUKS
        /\ disk[d].raw = "luks"
        /\ Len(Keys) > 0
        /\ cmds = <<>>

\* the operations of the LUKS manager
LUKSOperations == {"OpenLUKS", "CloseLUKS", "CheckLUKS", "FormatLUKSIfRequired"}

\* the kernel has the mapping that the drive's MappedDevicePath names, backed by this drive
MappingIsOpen(d) == kmap[d] # NoName /\ MapperPath(kmap[d]) = drives[d].MappedDevicePath

\* after an operation among ops completed on a drive, its MappedDevicePath names an open mapping or is empty
MappedOnlyWhileOpenAfter(ops) ==
    \A d \in Drives :
        (lastOp.op \in ops /\ lastOp.d = d /\ drives[d].MappedDevicePath # NoPath)
        => MappingIsOpen(d)

(* C4: after an operation of the LUKS manager has completed, a drive's     *)
(* MappedDevicePath is non-empty only if the kernel has an open mapping of *)
(* that name backed by the drive's device.  The claim says so of every     *)
(* operation of LUKSOperations; it is stated here of CheckLUKS, which is   *)
(* given a scan of the kernel's mappings taken at that moment and is the   *)
(* operation that reconciles the belief with it.                           *)
C4_MappedOnlyWhileOpen == MappedOnlyWhileOpenAfter({"CheckLUKS"})

\* MarkAsBroken ran for drive d in the operation that acted last
MarkedAsBroken(d) ==
    \E i \in 1..Len(logs) : logs[i] = <<"INFO", "flagging as broken", d>>

\* MarkAsBroken, triggered within an operation among ops, left the drive unmounted, unmapped and flagged
BrokenIsClosedAfter(ops) ==
    \A d \in Drives :
        (lastOp.op \in ops /\ MarkedAsBroken(d))
        => /\ ~(\E m \in mounts : Backing(St, m.dev) = d)
           /\ kmap[d] = NoName
           /\ d \in links

(* C5: when MarkAsBroken has completed for a drive, the drive is mounted   *)
(* nowhere, no encryption mapping backed by its device is open in the      *)
(* kernel, and its quarantine symlink exists.  The claim says so of every  *)
(* trigger; it is stated here of the trigger in CheckLUKS (the belief and  *)
(* the kernel disagree).                                                   *)
C5_BrokenIsClosed == BrokenIsClosedAfter({"CheckLUKS"})

(* ------------------------ properties of a pass ------------------------ *)

\* the kernel's mounts of drive d, through its raw device or through its own mapping
KernelMountsOf(ms, d) ==
    {m \in ms : m.dev = DevicePath(d) \/ m.dev = MapperPath(TemporaryMountName(d))}

\* drive d is mounted below /srv/node under the swift-id it carries
FinalMounted(d) ==
    /\ marker[d] # ""
    /\ \E m \in KernelMountsOf(mounts, d) : m.path = FinalPath(marker[d])

\* the last step of a pass
PassEnds == pc = "ready" /\ pc' = "idle"

\* another drive carries, or is registered with, the swift-id of drive d
SharesSwiftID(d) ==
    \E o \in Drives \ {d} : marker[o] = marker[d] \/ drives[o].SwiftID = marker[d]

\* a drive that fails in a stage sets the failure flag, and the flag lasts until the pass reports it
FailureIsFlagged ==
    /\ (pc \in {"mount", "final"} /\ \E d \in Drives : ~drives[d].Broken /\ drives'[d].Broken) => failed'
    /\ (pc = "scan" /\ pc' # "scan" /\ \E d \in Scanned(St, allMounts') : \A id \in PoolIDs : <<id, d>> \notin mountsByID') => failed'
    /\ (pc \in {"mount", "scan", "final"} /\ failed) => failed'
    /\ (PassEnds /\ failed) => exitCode' = 1

\* C6 as stated: when a drive fails at some stage of a pass, every drive that has not been
\* quarantined is mounted at /srv/node/<its swift-id> when the pass ends, and the failure is
\* flagged and reported.
C6_IsolationAsStated ==
    [][/\ FailureIsFlagged
       /\ PassEnds => \A e \in Drives : ~drives[e].Broken => FinalMounted(e)]_vars

\* C6: when a drive fails at some stage of a pass, every drive that has not been quarantined
\* and whose swift-id no other drive carries is mounted at /srv/node/<its swift-id> when the
\* pass ends, and the failure is flagged and reported by the exit code.
C6_Isolation ==
    [][/\ FailureIsFlagged
       /\ PassEnds => \A e \in Drives : (~drives[e].Broken /\ ~SharesSwiftID(e)) => FinalMounted(e)]_vars

\* a pass in which drive 1 was quarantined has ended with drive 2 promoted and the failure reported
C6_Witness ==
    /\ lastOp.op = "Finish"
    /\ exitCode = 1
    /\ batch[1][1] = "new device found"
    /\ drives[1].Broken
    /\ ~drives[2].Broken
    /\ FinalMounted(2)

\* the loop over drivePaths handles drive d, which the mount table shows read-only below /srv/node
ReadOnlyTurn(d) ==
    /\ pc = "mount"
    /\ todo # <<>>
    /\ Head(todo) = d
    /\ todo' = Tail(todo)
    /\ ~drives[d].Broken
    /\ \E m \in KernelMountsOf(allMounts, d) : m.path[1] = "/srv/node" /\ m.ro

\* C7: when the final mount of a drive has become read-only, the next pass marks this drive
\* Broken, unmounts it, closes its mapping and creates its quarantine symlink, and what it does
\* for this drive changes neither the registry entry nor the mapping nor the mounts of another drive.
C7_ReadOnlyDetection ==
    [][\A d \in Drives : ReadOnlyTurn(d) =>
          /\ drives'[d].Broken
          /\ d \in links'
          /\ kmap'[d] = NoName
          /\ KernelMountsOf(mounts', d) = {}
          /\ \A e \in Drives \ {d} :
                /\ drives'[e] = drives[e]
                /\ kmap'[e] = kmap[e]
                /\ e \in links' <=> e \in links
                /\ KernelMountsOf(mounts', e) = KernelMountsOf(mounts, e)]_vars

\* drive 1 has just been quarantined for its read-only final mount while drive 2 stays mounted and open
C7_Witness ==
    /\ lastOp = [op |-> "MountDevice", d |-> 1]
    /\ drives[1].Broken
    /\ \E i \in 1..Len(cmds) : cmds[i][1] = "umount" /\ cmds[i][2][1] = "/srv/node"
    /\ \E i \in 1..Len(cmds) : cmds[i][1] = "close"
    /\ FinalMounted(2)
    /\ kmap[2] = TemporaryMountName(2)

\* the pass that ends was started by the removal of the quarantine symlink of drive d,
\* which is registered with a swift-id and whose device works
ReinstatePassEnds(d) ==
    /\ PassEnds
    /\ \E i \in 1..Len(batch) : batch[i] = <<"device reinstated", d>>
    /\ drives[d].SwiftID # ""
    /\ d \notin faulty

\* drive d is not Broken, open, mounted at /srv/node/<the swift-id it is registered with> and
\* not mounted at its scratch path
BackInService(d) ==
    /\ ~drives[d].Broken
    /\ kmap[d] = TemporaryMountName(d)
    /\ drives[d].MappedDevicePath = MapperPath(TemporaryMountName(d))
    /\ marker[d] = drives[d].SwiftID
    /\ FinalMounted(d)
    /\ \A m \in mounts : m.path # ScratchPath(d)

\* C8 as stated: a drive that had its swift-id and was quarantined is, at the end of the pass
\* started by the removal of its quarantine symlink, not Broken, open, mounted at
\* /srv/node/<the same swift-id> and not mounted at its scratch path any more.
C8_RoundTripAsStated ==
    [][\A d \in Drives : ReinstatePassEnds(d) => BackInService(d)]_vars

\* C8: a drive that had its swift-id and was quarantined, and whose swift-id no other drive
\* carries, is, at the end of the pass started by the removal of its quarantine symlink, not
\* Broken, open, mounted at /srv/node/<the same swift-id> and not mounted at its scratch path
\* any more.
C8_ReinstateRoundTrip ==
    [][\A d \in Drives : (ReinstatePassEnds(d) /\ ~SharesSwiftID(d)) => BackInService(d)]_vars

\* the pass for the reinstated drive 1 has ended with the drive back at /srv/node
C8_Witness ==
    /\ lastOp.op = "Finish"
    /\ batch = <<<<"device reinstated", 1>>>>
    /\ drives[1].SwiftID # ""
    /\ ~drives[1].Broken
    /\ FinalMounted(1)

\* a step of a pass, as opposed to the arrival of an event or a change of the world
PassStep == <<pc, todo, mountsByID>>' # <<pc, todo, mountsByID>>

\* a step of a pass that no removal of a quarantine symlink has asked for
CheckStep == PassStep /\ \A i \in 1..Len(batch') : batch'[i][1] # "device reinstated"

\* what a pass without a physical change may do: no command on a container or a mount, no
\* change of the registry, no log event but the notice of the event
NothingToDo ==
    /\ drives' = drives
    /\ \A i \in 1..Len(cmds') : cmds'[i][1] \notin {"luksOpen", "luksFormat", "mount", "umount"}
    /\ \A i \in 1..Len(logs') : logs'[i][2] = "event received"

\* C9 as stated: after the end of a pass, as long as nothing changes physically, no step of
\* a further pass issues luksOpen, luksFormat, mount or umount, changes a Drive, or logs more
\* than the notice of its event.
C9_IdempotenceAsStated ==
    [][(quiet /\ CheckStep) => NothingToDo]_vars

\* C9: after the end of a pass that completed without error, as long as nothing changes
\* physically, no step of a further pass issues luksOpen, luksFormat, mount or umount, changes
\* a Drive, or logs more than the notice of its event.
C9_Idempotence ==
    [][(quiet /\ exitCode = 0 /\ CheckStep) => NothingToDo]_vars

\* a second pass over a mounted drive, with nothing changed since the first, is about to end
C9_Witness ==
    /\ quiet
    /\ exitCode = 0
    /\ pc = "ready"
    /\ \E d \in Drives : FinalMounted(d)

\* C10: for every drive promoted in a pass, the mount below /srv/node is made before the
\* scratch mount is removed: each umount of the scratch path that ExecuteFinalMount issues
\* comes after its mount at /srv/node/<swift-id>, which is still there afterwards.
C10_FinalMountFirst ==
    [][(pc = "final" /\ lastOp'.op = "ExecuteFinalMount" /\ ~drives'[lastOp'.d].Broken) =>
          \A i \in 1..Len(cmds') :
             (cmds'[i][1] = "umount" /\ cmds'[i][2] = ScratchPath(lastOp'.d)) =>
                \E j \in 1..(i - 1) :
                   /\ cmds'[j][1] = "mount"
                   /\ cmds'[j][3][1] = "/srv/node"
                   /\ \E m \in KernelMountsOf(mounts', lastOp'.d) : m.path = cmds'[j][3]]_vars

\* a drive has just been promoted: mounted below /srv/node, then unmounted from its scratch path
C10_Witness ==
    /\ lastOp.op = "ExecuteFinalMount"
    /\ ~drives[lastOp.d].Broken
    /\ Len(cmds) = 2
    /\ cmds[1][1] = "mount"
    /\ cmds[2] = <<"umount", ScratchPath(lastOp.d)>>
    /\ FinalMounted(lastOp.d)

(* ----------------------- events, exit code, marker -------------------- *)

\* the kinds of events
EventKinds == {"new device found", "scheduled consistency check", "device reinstated"}

\* events are taken from the queue in this step
EventsTaken == Len(queue') < Len(queue)

\* the stages of a pass follow each other: mount, identity scan, final mount, ready marker
StagesInOrder ==
    \/ pc' = pc
    \/ <<pc, pc'>> \in {<<"idle", "mount">>, <<"mount", "scan">>, <<"scan", "final">>, <<"scan", "ready">>,
                        <<"final", "ready">>, <<"ready", "idle">>}

\* passes never overlap, and events arrive at the end of the queue
OnePassAtATime ==
    /\ StagesInOrder
    /\ EventsTaken => (pc = "idle" /\ pc' = "mount")
    /\ (pc = "idle" /\ pc' = "mount") => EventsTaken
    /\ pc # "idle" => batch' = batch
    /\ ~EventsTaken => (queue' = queue \/ \E e \in EventKinds \X (0..NDrives) : queue' = Append(queue, e))

ErrorLogged == \E i \in 1..Len(logs') : logs'[i][1] = "ERROR"

StepsLeft(p, td, byID) ==
    CASE p = "mount" -> 3 + NDrives + Len(td)
      [] p = "scan" -> 2 + NDrives
      [] p = "final" -> 1 + Cardinality(byID)
      [] p = "ready" -> 1
      [] OTHER -> 0

\* C13 (readiness marker): a pass that has begun runs to its end, and it runs
\* "touch /srv/node/ready" exactly once, in its last step. Every step of a pass leaves less to
\* do and leaves the next step able to run; no step before the last runs the touch; the last
\* step runs it once, when no drive is left to mount and no final mount is left to attempt,
\* whether the pass had a failure or not.
C13_ReadyMarkerOncePerPass ==
    [][PassStep =>
         /\ ~fatal'
         /\ (pc # "idle") => StepsLeft(pc', todo', mountsByID') < StepsLeft(pc, todo, mountsByID)
         /\ (pc' = "mount") => todo' # <<>>
         /\ (pc' = "final") => mountsByID' # {}
         /\ (pc # "ready") => Issued(cmds', "touch") = <<>>
         /\ (pc = "ready") =>
               /\ Issued(cmds', "touch") = <<<<"touch", "/srv/node/ready">>>>
               /\ todo = <<>>
               /\ mountsByID = {}
               /\ lastOp'.op = "Finish"
               /\ pc' = "idle"]_vars

\* a pass in which a drive was quarantined and a final mount was made has touched the marker
C13_Witness ==
    /\ lastOp.op = "Finish"
    /\ exitCode = 1
    /\ nodeWritable
    /\ Issued(cmds, "touch") = <<<<"touch", "/srv/node/ready">>>>
    /\ \E d \in Drives : drives[d].Broken
    /\ \E d \in Drives : FinalMounted(d)

\* the position of a swift-id in the configured pool, 0 when it is not in the pool
PoolIndex(id) ==
    IF id \in PoolIDs THEN CHOOSE i \in 1..Len(SwiftIDPool) : SwiftIDPool[i] = id ELSE 0

\* the step in which ScanSwiftID runs
ScanStep == pc = "scan" /\ lastOp'.op = "ScanSwiftID" /\ pc' # "scan"

\* the drives that get a swift-id in this step
NewlyAssigned == {d \in Drives : marker[d] = "" /\ marker'[d] # ""}

\* what the drives other than d claim once this step is over: the swift-id files of the drives
\* the pass looks at, and the swift-ids the registry remembers
ClaimedAfter(d) ==
    {marker'[e] : e \in Scanned(St, allMounts') \ {d}} \cup {drives[e].SwiftID : e \in Drives \ {d}}

\* two different devices are mounted at one path below /srv/node
SharedFinalPath(ms) ==
    \E m1, m2 \in ms : m1.path = m2.path /\ m1.path[1] = "/srv/node" /\ m1.dev # m2.dev

BeliefDisagrees(d) ==
    /\ drives[d].MappedDevicePath # NoPath
    /\ kmap[d] = NoName \/ drives[d].MappedDevicePath # MapperPath(kmap[d])

\* C15 (CheckLUKS): CheckLUKS marks the drive Broken exactly when its belief and the kernel
\* disagree. With an active mapping and no belief it sets MappedDevicePath to
\* /dev/mapper/<name> and clears StartedOutEmpty, and changes nothing else of the drive. In
\* the two cases left (no mapping and no belief, the active mapping is the believed one) it
\* changes nothing and runs nothing.
C15_CheckLUKSTable ==
    [][\A d \in Managed : (lastOp'.op = "CheckLUKS" /\ lastOp'.d = d) =>
          /\ BeliefDisagrees(d) =>
                /\ drives'[d].Broken
                /\ \E i \in 1..Len(logs') : logs'[i][1] = "ERROR"
          /\ ~BeliefDisagrees(d) => drives'[d].Broken = drives[d].Broken
          /\ (kmap[d] # NoName /\ drives[d].MappedDevicePath = NoPath) =>
                /\ drives'[d] = [drives[d] EXCEPT !.MappedDevicePath = MapperPath(kmap[d]),
                                                   !.StartedOutEmpty = FALSE]
                /\ cmds' = <<>>
                /\ UNCHANGED world
          /\ (~BeliefDisagrees(d) /\ ~(kmap[d] # NoName /\ drives[d].MappedDevicePath = NoPath)) =>
                /\ UNCHANGED <<drives, world, fatal>>
                /\ cmds' = <<>>
                /\ logs' = <<>>]_vars

\* the container was opened as hash1, closed behind the program's back and opened again under
\* another name: CheckLUKS has reported the contradiction and flagged the drive
C15_Witness ==
    /\ Acted("CheckLUKS", 1)
    /\ kmap[1] = ForeignName
    /\ drives[1].MappedDevicePath = MapperPath(TemporaryMountName(1))
    /\ drives[1].Broken
    /\ logs[1] = <<"ERROR", "is actually open at", 1>>

\* OpenLUKS finds drive d in service, without a mapping and classified as LUKS (from an
\* earlier classification or from the one it makes itself), and cryptsetup accepts none of
\* the configured keys
KeysExhausted(d) ==
    /\ ~drives[d].Broken
    /\ drives[d].MappedDevicePath = NoPath
    /\ \/ drives[d].Type = DeviceTypeLUKS
       \/ drives[d].Type = DeviceTypeNotScanned /\ disk[d].raw = "luks" /\ d \notin faulty
    /\ \A i \in 1..Len(Keys) : ~LuksOpenAccepts(St, d, TemporaryMountName(d), Keys[i])

\* C16 (key exhaustion): when OpenLUKS runs on a drive that is in service, unmapped and
\* classified LUKS and no configured key is accepted (the key list may be empty), it logs
\* exactly one Error event and marks the drive Broken, MappedDevicePath stays empty, Type
\* stays LUKS, and the process is not ended.
C16_KeyExhaustion ==
    [][\A d \in Managed : (lastOp'.op = "OpenLUKS" /\ lastOp'.d = d /\ KeysExhausted(d)) =>
          /\ Len(SelectSeq(logs', LAMBDA l : l[1] = "ERROR")) = 1
          /\ drives'[d].Broken
          /\ drives'[d].MappedDevicePath = NoPath
          /\ drives'[d].Type = DeviceTypeLUKS
          /\ ~fatal'
          /\ kmap' = kmap
          /\ Len(Issued(cmds', "luksOpen")) = Len(Keys)]_vars

\* every configured key was tried on the container and refused: the drive is flagged
C16_Witness ==
    /\ Acted("OpenLUKS", 1)
    /\ Keys # <<>>
    /\ Len(Issued(cmds, "luksOpen")) = Len(Keys)
    /\ disk[1].raw = "luks"
    /\ kmap[1] = NoName
    /\ drives[1].Broken
    /\ drives[1].MappedDevicePath = NoPath
    /\ drives[1].Type = DeviceTypeLUKS
    /\ logs[1] = <<"ERROR", "none of the configured keys was accepted", 1>>

\* C17 (CloseLUKS): with MappedDevicePath empty CloseLUKS runs no command and changes
\* nothing. Otherwise it runs one "cryptsetup close" of the believed mapping: when that
\* succeeds MappedDevicePath is empty afterwards and no other field of the drive changes;
\* when it fails no field of the drive changes, so the mapping is still believed open and a
\* later CloseLUKS tries again.
C17_CloseLUKSOutcome ==
    [][\A d \in Managed : (lastOp'.op = "CloseLUKS" /\ lastOp'.d = d) =>
          /\ (drives[d].MappedDevicePath = NoPath) =>
                /\ cmds' = <<>>
                /\ logs' = <<>>
                /\ UNCHANGED <<drives, world>>
          /\ (drives[d].MappedDevicePath # NoPath) =>
                /\ cmds' = <<<<"close", Base(drives[d].MappedDevicePath)>>>>
                /\ LuksCloseWorks(St, Base(drives[d].MappedDevicePath)) =>
                      /\ drives'[d] = [drives[d] EXCEPT !.MappedDevicePath = NoPath]
                      /\ \A b \in Drives : kmap'[b] # Base(drives[d].MappedDevicePath)
                /\ ~LuksCloseWorks(St, Base(drives[d].MappedDevicePath)) =>
                      /\ drives' = drives
                      /\ kmap' = kmap
                /\ ~fatal']_vars

\* the mapping is mounted, so cryptsetup close was refused: the drive still believes in it
C17_Witness ==
    /\ Acted("CloseLUKS", 1)
    /\ cmds = <<<<"close", TemporaryMountName(1)>>>>
    /\ kmap[1] = TemporaryMountName(1)
    /\ IsMounted(St, MapperPath(TemporaryMountName(1)))
    /\ drives[1].MappedDevicePath = MapperPath(TemporaryMountName(1))
    /\ ~drives[1].Broken

\* C18 (no keys): with an empty key list, FormatLUKSIfRequired on a drive that is in service
\* and has no mapping ends the process with a Fatal event, before it classifies the device
\* and without running luksFormat; on a drive that is Broken or has a mapping it returns
\* without Fatal. In both cases it runs no command and changes nothing of the drive or the
\* world.
C18_NoKeysIsFatal ==
    [][\A d \in Managed : (lastOp'.op = "FormatLUKSIfRequired" /\ lastOp'.d = d /\ Keys = <<>>) =>
          /\ cmds' = <<>>
          /\ UNCHANGED <<drives, world>>
          /\ (~drives[d].Broken /\ drives[d].MappedDevicePath = NoPath) =>
                /\ fatal'
                /\ logs' = <<<<"FATAL", "no keys specified", d>>>>
          /\ (drives[d].Broken \/ drives[d].MappedDevicePath # NoPath) =>
                /\ ~fatal'
                /\ logs' = <<>>]_vars

\* no key is configured and the device, not yet classified, was to be prepared: the process
\* has ended
C18_Witness ==
    /\ Acted("FormatLUKSIfRequired", 1)
    /\ Keys = <<>>
    /\ fatal
    /\ drives[1].Type = DeviceTypeNotScanned
    /\ disk[1] = BlankDisk
    /\ cmds = <<>>

\* a LUKS operation on drive d changes the device that the classification refers to: OpenLUKS
\* opens the container, CheckLUKS adopts an open mapping, or CloseLUKS closes the mapping
Retargets(d) ==
    /\ lastOp'.op \in {"OpenLUKS", "CheckLUKS", "CloseLUKS"}
    /\ lastOp'.d = d
    /\ drives'[d].MappedDevicePath # drives[d].MappedDevicePath

\* C19 (classification reset): after every LUKS operation that changes which content the
\* classification refers to (a successful OpenLUKS, a CheckLUKS that adopts an open mapping, a
\* successful CloseLUKS), Type is NotScanned.
C19_TypeResetOnRetarget ==
    [][\A d \in Managed : Retargets(d) => drives'[d].Type = DeviceTypeNotScanned]_vars

\* FormatLUKSIfRequired finds drive d in service, without a mapping and classified Unknown
\* (from an earlier classification or from the one it makes itself), and keys are configured
ToBeFormatted(d) ==
    /\ ~drives[d].Broken
    /\ drives[d].MappedDevicePath = NoPath
    /\ Keys # <<>>
    /\ \/ drives[d].Type = DeviceTypeUnknown
       \/ drives[d].Type = DeviceTypeNotScanned /\ disk[d].raw = "blank" /\ d \notin faulty

\* FormatLUKSIfRequired has just formatted drive d
JustFormatted(d) ==
    /\ Acted("FormatLUKSIfRequired", d)
    /\ Issued(cmds, "luksFormat") # <<>>
    /\ ~drives[d].Broken

\* C20 (format, then open): on a drive in service, unmapped and classified Unknown, with keys
\* configured, FormatLUKSIfRequired runs luksFormat with the first key; when that succeeds
\* Type is LUKS and the drive stays in service, when it fails the drive is Broken. The
\* OpenLUKS that follows a successful format opens the container with the first key: it ends
\* with MappedDevicePath = /dev/mapper/<TemporaryMount.Name> and the drive not Broken.
C20_FormatThenOpen ==
    [][\A d \in Managed :
          /\ (lastOp'.op = "FormatLUKSIfRequired" /\ lastOp'.d = d /\ ToBeFormatted(d)) =>
                /\ Issued(cmds', "luksFormat") = <<<<"luksFormat", d, 1>>>>
                /\ LuksFormatWorks(St, d) =>
                      /\ drives'[d].Type = DeviceTypeLUKS
                      /\ ~drives'[d].Broken
                      /\ drives'[d].MappedDevicePath = NoPath
                      /\ disk'[d] = LuksDisk(Keys[1], "blank")
                /\ ~LuksFormatWorks(St, d) => drives'[d].Broken
          /\ (JustFormatted(d) /\ lastOp'.op = "OpenLUKS" /\ lastOp'.d = d) =>
                /\ cmds' = <<<<"luksOpen", d, TemporaryMountName(d), 1>>>>
                /\ kmap'[d] = TemporaryMountName(d)
                /\ drives'[d].MappedDevicePath = MapperPath(TemporaryMountName(d))
                /\ ~drives'[d].Broken]_vars

\* two keys are configured; the container that luksFormat made with the first of them was
\* opened by OpenLUKS at the first attempt, without another look at the device
C20_Witness ==
    /\ Acted("OpenLUKS", 1)
    /\ Len(Keys) = 2
    /\ Keys[1] # Keys[2]
    /\ disk[1] = LuksDisk(Keys[1], "blank")
    /\ cmds = <<<<"luksOpen", 1, TemporaryMountName(1), 1>>>>
    /\ kmap[1] = TemporaryMountName(1)
    /\ drives[1].MappedDevicePath = MapperPath(TemporaryMountName(1))
    /\ ~drives[1].Broken

====
